---- MODULE Spec2Model ----
(***************************************************************************)
(* Model of scripts/download_models.py: the parallel model downloader.     *)
(*                                                                         *)
(* A file's content is a sequence of byte segments [src, lo, hi): the      *)
(* bytes lo..hi-1 of a named byte source ("remote" = the resource behind   *)
(* the request's URL, "errpage" = a short body served instead of the       *)
(* resource, "local" = bytes that were on disk before and came from        *)
(* neither).  Sizes are in bytes.  SHA-256 is modelled as collision free:  *)
(* the digest of a content is the content itself, rendered in hex in       *)
(* lower or upper case.                                                    *)
(***************************************************************************)
EXTENDS Integers, Sequences, FiniteSets, TLC

\* ------------------------------------------------------------- constants
RETRY_BASE_DELAY_SECONDS == 5
KB_TO_BYTES == 1024
MIN_VALID_FILE_SIZE_KB == 10
DEFAULT_MAX_WORKERS == 4
retry_count == 3
chunk_size == 8192
MAX_WAIT_SECONDS == 60

\* ---------------------------------------------------------------- bounds
SmallRemote == 4096
LargeRemote == 32768
ErrPageSize == 512
MaxRuns == 2
PipelineRequests == 3
FaultRequests == 2
ConfigRequests == 2
ResolveRequests == 2
MaxFragments == 2
MaxAttemptsChecked == 8
LiveRequests == 2
ManagerRequests == 2

MinValidSize == MIN_VALID_FILE_SIZE_KB * KB_TO_BYTES
RemoteSizes == {SmallRemote, LargeRemote}
\* Offsets at which a stream may break: before the first byte, exactly at
\* the floor, and two chunks in (above the floor).
Cuts == {0, MinValidSize, 2 * chunk_size}

VARIABLES
    req,            \* the request list: r -> [url, link, size, checksum, server]
    max_workers,    \* MAX_WORKERS, read from the environment at import
    file,           \* the destination file of each request
    pc,             \* where the worker of each request stands
    attempt,        \* loop variable of download_file_with_resume
    existing_size,  \* local of download_file_with_resume
    wait_time,      \* the backoff being slept, 0 when none
    last_status,    \* status of the last GET response of the attempt, 0 = none
    last_error,     \* how the last attempt failed: "none" | "request" | "checksum" | "os"
    netCalls,       \* HEAD and GET requests issued for the request in this run
    gets,           \* GET requests issued by the current fetch
    dispatched,     \* times the request was handed to a worker in this run
    notice,         \* what download_single_model said of the existing file
    future,         \* what the request's future holds
    counted,        \* the as_completed loop has processed the future
    successful, failed, skipped,
    phase,          \* "loading" | "running" | "exited"
    models_json,    \* models_download.json: "ok" | "empty" | "missing" | "malformed"
    links_json,     \* link_verification_results.json, likewise
    exit_code,      \* the process exit status, -1 while running
    run,            \* which invocation of the script this is
    prev,           \* the outcomes of the previous invocation
    total_size,     \* content-length of the HEAD answer of the attempt, 0 = none
    command,        \* the command line that ran last: "download" | "update" | ...
    category,       \* the key of models_download.json each entry is listed under
    strays,         \* files under models/ that no entry's download put there
    report,         \* what `verify` said of each entry, if it ran last
    removed         \* files `prune` removed, if it ran last

vars == <<req, max_workers, file, pc, attempt, existing_size, wait_time,
          last_status, last_error, netCalls, gets, dispatched, notice, future,
          counted, successful, failed, skipped, phase, models_json, links_json,
          exit_code, run, prev, total_size, command, category, strays, report,
          removed>>

Requests == DOMAIN req

\* --------------------------------------------------------------- content
Seg(s, lo, hi) == [src |-> s, lo |-> lo, hi |-> hi]

RECURSIVE Size(_)
Size(c) == IF c = <<>> THEN 0 ELSE (Head(c).hi - Head(c).lo) + Size(Tail(c))

\* f.write(chunk) for the bytes of one segment, at the end of the file
WriteBytes(c, seg) ==
    IF seg.hi <= seg.lo THEN c
    ELSE IF c # <<>> /\ c[Len(c)].src = seg.src /\ c[Len(c)].hi = seg.lo
         THEN [c EXCEPT ![Len(c)].hi = seg.hi]
         ELSE Append(c, seg)

NoFile == [exists |-> FALSE, data |-> <<>>]
FileOf(c) == [exists |-> TRUE, data |-> c]
Remote(n) == <<Seg("remote", 0, n)>>
RemotePrefix(k) == IF k = 0 THEN <<>> ELSE <<Seg("remote", 0, k)>>

\* ---------------------------------------------------------------- digest
NoChecksum == [given |-> FALSE, of |-> <<>>, upper |-> FALSE]
Checksum(c, up) == [given |-> TRUE, of |-> c, upper |-> up]
hexdigest(c) == [given |-> TRUE, of |-> c, upper |-> FALSE]
lower(h) == [h EXCEPT !.upper = FALSE]

verify_checksum_mutant_casesensitive(f, expected_sha256) ==
    IF ~expected_sha256.given THEN TRUE
    ELSE IF ~f.exists THEN FALSE
    ELSE hexdigest(f.data) = expected_sha256
verify_checksum(f, expected_sha256) ==
    IF ~expected_sha256.given THEN TRUE
    ELSE IF ~f.exists THEN FALSE
    ELSE lower(hexdigest(f.data)) = lower(expected_sha256)


\* ------------------------------------------------------- path resolution
\* A string (a URL, a file name, a keyword) is the sequence of its
\* characters, each a one-character string.
MODEL_CLASSIFICATION_MAPPING_mutant_checkpointsfirst ==
    <<
      [directory |-> "checkpoints",
       patterns |-> << <<".", "c", "k", "p", "t">>,
                     <<".", "s", "a", "f", "e", "t", "e", "n", "s", "o", "r", "s">> >>],
      [directory |-> "unet",
       patterns |-> << <<"f", "l", "u", "x">>,
                     <<"s", "d", "3">>,
                     <<"a", "u", "r", "a", "f", "l", "o", "w">>,
                     <<"h", "u", "n", "y", "u", "a", "n">>,
                     <<"k", "o", "l", "o", "r", "s">>,
                     <<"l", "u", "m", "i", "n", "a">> >>],
      [directory |-> "vae",
       patterns |-> << <<"v", "a", "e">>,
                     <<"k", "l", "-", "f", "8", "-", "a", "n", "i", "m", "e">> >>],
      [directory |-> "clip_vision",
       patterns |-> << <<"c", "l", "i", "p", "_", "v", "i", "s", "i", "o", "n">>,
                     <<"i", "m", "a", "g", "e", "_", "e", "n", "c", "o", "d", "e", "r">> >>],
      [directory |-> "clip",
       patterns |-> << <<"c", "l", "i", "p">>,
                     <<"o", "p", "e", "n", "_", "c", "l", "i", "p">> >>],
      [directory |-> "t5",
       patterns |-> << <<"t", "5">>,
                     <<"u", "m", "t", "5">> >>],
      [directory |-> "controlnet",
       patterns |-> << <<"c", "o", "n", "t", "r", "o", "l", "n", "e", "t">>,
                     <<"c", "o", "n", "t", "r", "o", "l", "_">>,
                     <<"c", "a", "n", "n", "y">>,
                     <<"d", "e", "p", "t", "h">>,
                     <<"o", "p", "e", "n", "p", "o", "s", "e">>,
                     <<"s", "c", "r", "i", "b", "b", "l", "e">> >>],
      [directory |-> "loras",
       patterns |-> << <<"l", "o", "r", "a">>,
                     <<".", "l", "o", "r", "a">> >>],
      [directory |-> "upscale_models",
       patterns |-> << <<"e", "s", "r", "g", "a", "n">>,
                     <<"r", "e", "a", "l", "e", "s", "r", "g", "a", "n">>,
                     <<"s", "w", "i", "n", "i", "r">>,
                     <<"4", "x">>,
                     <<"2", "x">>,
                     <<"u", "p", "s", "c", "a", "l", "e">> >>],
      [directory |-> "animatediff_models",
       patterns |-> << <<"a", "n", "i", "m", "a", "t", "e", "d", "i", "f", "f">>,
                     <<"m", "m", "_">>,
                     <<"m", "o", "t", "i", "o", "n">> >>],
      [directory |-> "ipadapter",
       patterns |-> << <<"i", "p", "-", "a", "d", "a", "p", "t", "e", "r">>,
                     <<"i", "p", "_", "a", "d", "a", "p", "t", "e", "r">> >>],
      [directory |-> "text_encoders",
       patterns |-> << <<"t", "e", "x", "t", "_", "e", "n", "c", "o", "d", "e", "r">> >>]>>
MODEL_CLASSIFICATION_MAPPING ==
    <<
      [directory |-> "unet",
       patterns |-> << <<"f", "l", "u", "x">>,
                     <<"s", "d", "3">>,
                     <<"a", "u", "r", "a", "f", "l", "o", "w">>,
                     <<"h", "u", "n", "y", "u", "a", "n">>,
                     <<"k", "o", "l", "o", "r", "s">>,
                     <<"l", "u", "m", "i", "n", "a">> >>],
      [directory |-> "vae",
       patterns |-> << <<"v", "a", "e">>,
                     <<"k", "l", "-", "f", "8", "-", "a", "n", "i", "m", "e">> >>],
      [directory |-> "clip_vision",
       patterns |-> << <<"c", "l", "i", "p", "_", "v", "i", "s", "i", "o", "n">>,
                     <<"i", "m", "a", "g", "e", "_", "e", "n", "c", "o", "d", "e", "r">> >>],
      [directory |-> "clip",
       patterns |-> << <<"c", "l", "i", "p">>,
                     <<"o", "p", "e", "n", "_", "c", "l", "i", "p">> >>],
      [directory |-> "t5",
       patterns |-> << <<"t", "5">>,
                     <<"u", "m", "t", "5">> >>],
      [directory |-> "controlnet",
       patterns |-> << <<"c", "o", "n", "t", "r", "o", "l", "n", "e", "t">>,
                     <<"c", "o", "n", "t", "r", "o", "l", "_">>,
                     <<"c", "a", "n", "n", "y">>,
                     <<"d", "e", "p", "t", "h">>,
                     <<"o", "p", "e", "n", "p", "o", "s", "e">>,
                     <<"s", "c", "r", "i", "b", "b", "l", "e">> >>],
      [directory |-> "loras",
       patterns |-> << <<"l", "o", "r", "a">>,
                     <<".", "l", "o", "r", "a">> >>],
      [directory |-> "upscale_models",
       patterns |-> << <<"e", "s", "r", "g", "a", "n">>,
                     <<"r", "e", "a", "l", "e", "s", "r", "g", "a", "n">>,
                     <<"s", "w", "i", "n", "i", "r">>,
                     <<"4", "x">>,
                     <<"2", "x">>,
                     <<"u", "p", "s", "c", "a", "l", "e">> >>],
      [directory |-> "animatediff_models",
       patterns |-> << <<"a", "n", "i", "m", "a", "t", "e", "d", "i", "f", "f">>,
                     <<"m", "m", "_">>,
                     <<"m", "o", "t", "i", "o", "n">> >>],
      [directory |-> "ipadapter",
       patterns |-> << <<"i", "p", "-", "a", "d", "a", "p", "t", "e", "r">>,
                     <<"i", "p", "_", "a", "d", "a", "p", "t", "e", "r">> >>],
      [directory |-> "text_encoders",
       patterns |-> << <<"t", "e", "x", "t", "_", "e", "n", "c", "o", "d", "e", "r">> >>],
      [directory |-> "checkpoints",
       patterns |-> << <<".", "c", "k", "p", "t">>,
                     <<".", "s", "a", "f", "e", "t", "e", "n", "s", "o", "r", "s">> >>]>>

\* The directories create_directory_structure makes under the models root
directories ==
    {"checkpoints", "unet", "vae", "clip", "t5", "clip_vision", "controlnet",
     "loras", "upscale_models", "diffusion_models", "animatediff_models",
     "text_encoders", "ipadapter"}

ascii_uppercase == <<"A", "B", "C", "D", "E", "F", "G", "H", "I", "J", "K", "L", "M", "N", "O", "P", "Q", "R", "S", "T", "U", "V", "W", "X", "Y", "Z">>
ascii_lowercase == <<"a", "b", "c", "d", "e", "f", "g", "h", "i", "j", "k", "l", "m", "n", "o", "p", "q", "r", "s", "t", "u", "v", "w", "x", "y", "z">>

\* str.lower() on ASCII text
str_lower(s) ==
    [i \in 1..Len(s) |->
        IF \E k \in 1..Len(ascii_uppercase) : ascii_uppercase[k] = s[i]
        THEN ascii_lowercase[CHOOSE k \in 1..Len(ascii_uppercase) : ascii_uppercase[k] = s[i]]
        ELSE s[i]]

\* str.startswith, str.endswith and the `in` operator on strings
startswith(s, p) ==
    Len(p) <= Len(s) /\ \A j \in 1..Len(p) : s[j] = p[j]
endswith(s, p) ==
    Len(p) <= Len(s) /\ \A j \in 1..Len(p) : s[Len(s) - Len(p) + j] = p[j]
contains(s, p) ==
    \E i \in 0..(Len(s) - Len(p)) : \A j \in 1..Len(p) : s[i + j] = p[j]

\* The index of the first character of s at or after position from that is
\* one of cs; Len(s) + 1 when there is none.
RECURSIVE find(_, _, _)
find(s, cs, from) ==
    IF from > Len(s) THEN Len(s) + 1
    ELSE IF s[from] \in cs THEN from
    ELSE find(s, cs, from + 1)

\* The index of the last character of s at or before position upto that is
\* c; 0 when there is none.
RECURSIVE rfind(_, _, _)
rfind(s, c, upto) ==
    IF upto < 1 THEN 0
    ELSE IF s[upto] = c THEN upto
    ELSE rfind(s, c, upto - 1)

\* urlparse(url).path: what follows the scheme and the //netloc, up to the
\* query or the fragment.  after_scheme: where the text after "scheme:"
\* starts, given the position of the first colon; after_netloc: where the
\* path starts.
after_scheme(url, colon) ==
    IF /\ colon > 1 /\ colon <= Len(url)
       /\ \A i \in 1..(colon - 1) : url[i] \notin {"/", "?", "#"}
    THEN colon + 1
    ELSE 1
after_netloc(url, rest) ==
    IF rest + 1 <= Len(url) /\ url[rest] = "/" /\ url[rest + 1] = "/"
    THEN find(url, {"/", "?", "#"}, rest + 2)
    ELSE rest
path_from(url, start) == SubSeq(url, start, find(url, {"?", "#"}, start) - 1)
urlparse_path(url) ==
    path_from(url, after_netloc(url, after_scheme(url, find(url, {":"}, 1))))

\* url.split("?")[0]
split_query(url) == SubSeq(url, 1, find(url, {"?"}, 1) - 1)

\* parsed_url.path.split("/")[-1] if parsed_url.path else "unknown"
path_filename(path) ==
    IF path = <<>> THEN <<"u", "n", "k", "n", "o", "w", "n">>
    ELSE SubSeq(path, rfind(path, "/", Len(path)) + 1, Len(path))

\* One pattern of a rule against the lower-cased file name
pattern_matches(pattern, filename) ==
    IF startswith(pattern, <<".">>)
    THEN endswith(filename, pattern)
    ELSE contains(filename, pattern)

\* The loop over MODEL_CLASSIFICATION_MAPPING from rule i on
RECURSIVE classify(_, _)
classify(i, filename) ==
    IF i > Len(MODEL_CLASSIFICATION_MAPPING)
    THEN "diffusion_models"
    ELSE IF \E k \in 1..Len(MODEL_CLASSIFICATION_MAPPING[i].patterns) :
               pattern_matches(MODEL_CLASSIFICATION_MAPPING[i].patterns[k], filename)
         THEN MODEL_CLASSIFICATION_MAPPING[i].directory
         ELSE classify(i + 1, filename)

determine_target_directory_mutant_nolower(url) ==
    classify(1, path_filename(urlparse_path(url)))
determine_target_directory(url) ==
    classify(1, str_lower(path_filename(urlparse_path(url))))

\* download_single_model: the destination of a URL below the models root
NoTarget == [directory |-> "", filename |-> <<>>]
target_path(url) ==
    [directory |-> determine_target_directory(url),
     filename |-> path_filename(urlparse_path(split_query(url)))]

\* --------------------------------------------- download_single_model
\* The check of an existing destination file: "skip" returns
\* (url, True, True); "mismatch" and "incomplete" print their notice, delete
\* the file and fetch; "fetch" fetches.
existing_file_check_mutant_noverify(f, checksum) ==
    IF f.exists
    THEN IF Size(f.data) > MinValidSize THEN "skip" ELSE "incomplete"
    ELSE "fetch"
existing_file_check_mutant_nofloor(f, checksum) ==
    IF f.exists
    THEN IF checksum.given
         THEN IF verify_checksum(f, checksum) THEN "skip" ELSE "mismatch"
         ELSE "skip"
    ELSE "fetch"
existing_file_check_mutant_keepmismatch(f, checksum) ==
    IF f.exists
    THEN IF Size(f.data) > MinValidSize
         THEN IF checksum.given
              THEN IF verify_checksum(f, checksum) THEN "skip" ELSE "fetch"
              ELSE "skip"
         ELSE "incomplete"
    ELSE "fetch"
existing_file_check(f, checksum) ==
    IF f.exists
    THEN IF Size(f.data) > MinValidSize
         THEN IF checksum.given
              THEN IF verify_checksum(f, checksum) THEN "skip" ELSE "mismatch"
              ELSE "skip"
         ELSE "incomplete"
    ELSE "fetch"

\* ----------------------------------------- download_file_with_resume
\* The probe of an attempt.  head is the content-length the HEAD request
\* reports, or -1 when the HEAD request raises.  Result: ret = TRUE when
\* the function returns True, else the file and existing_size the transfer
\* starts from.
probe_mutant_noshortcut(f, expected_checksum, head) ==
    [ret |-> FALSE, file |-> f, existing_size |-> IF f.exists THEN Size(f.data) ELSE 0]
probe(f, expected_checksum, head) ==
    IF ~f.exists
    THEN [ret |-> FALSE, file |-> f, existing_size |-> 0]
    ELSE LET size == Size(f.data)
         IN IF head >= 0 /\ size = head /\ head > 0
            THEN IF expected_checksum.given
                 THEN IF verify_checksum(f, expected_checksum)
                      THEN [ret |-> TRUE, file |-> f, existing_size |-> size]
                      ELSE [ret |-> FALSE, file |-> NoFile, existing_size |-> 0]
                 ELSE [ret |-> TRUE, file |-> f, existing_size |-> size]
            ELSE [ret |-> FALSE, file |-> f, existing_size |-> size]

\* headers["Range"] is set and the file is opened "ab"
resumes(size) == size > MinValidSize

\* response.raise_for_status()
raise_for_status(status) == status >= 400 /\ status < 600

\* wait_time of the handler of RequestException
backoff_delay_mutant_nocap(att) == (2 ^ (att + 1)) * RETRY_BASE_DELAY_SECONDS
backoff_delay(att) ==
    LET d == (2 ^ (att + 1)) * RETRY_BASE_DELAY_SECONDS
    IN IF d < MAX_WAIT_SECONDS THEN d ELSE MAX_WAIT_SECONDS

\* The handler of requests.exceptions.RequestException
on_request_exception_mutant_offbyone(f, att) ==
    IF att < retry_count
    THEN [next |-> "backoff", file |-> f, err |-> "request"]
    ELSE [next |-> "false", file |-> f, err |-> "request"]
on_request_exception(f, att) ==
    IF att < retry_count - 1
    THEN [next |-> "backoff", file |-> f, err |-> "request"]
    ELSE [next |-> "false", file |-> f, err |-> "request"]

\* The handler of any other exception: an OSError of open() or f.write()
\* is no RequestException.
on_exception_mutant_retry(f, att) ==
    IF att < retry_count - 1
    THEN [next |-> "backoff", file |-> f, err |-> "os"]
    ELSE [next |-> "false", file |-> f, err |-> "os"]
on_exception(f, att) == [next |-> "false", file |-> f, err |-> "os"]

\* The checksum verification that follows a completed stream
verify_download_mutant_keep(f, expected_checksum, att) ==
    [next |-> "true", file |-> f, err |-> "none"]
verify_download_mutant_nounlink(f, expected_checksum, att) ==
    IF expected_checksum.given /\ ~verify_checksum(f, expected_checksum)
    THEN IF att < retry_count - 1
         THEN [next |-> "continue", file |-> f, err |-> "checksum"]
         ELSE [next |-> "false", file |-> f, err |-> "checksum"]
    ELSE [next |-> "true", file |-> f, err |-> "none"]
verify_download(f, expected_checksum, att) ==
    IF expected_checksum.given /\ ~verify_checksum(f, expected_checksum)
    THEN IF att < retry_count - 1
         THEN [next |-> "continue", file |-> NoFile, err |-> "checksum"]
         ELSE [next |-> "false", file |-> f, err |-> "checksum"]
    ELSE [next |-> "true", file |-> f, err |-> "none"]

\* The with-block that streams a response to the file opened in `mode`.
\* resp = [status, body, written, complete, fault]: body is the segment the
\* server sends, written the bytes that reached the file, complete is FALSE
\* when the stream stopped after `written` bytes: iter_content raised
\* (fault "none"), or f.write raised OSError (fault "write").  Fault "open":
\* open() raised OSError and the file is as it was.
stream(f, mode, resp, expected_checksum, att) ==
    LET base == IF mode = "ab" /\ f.exists THEN f.data ELSE <<>>
        got == Seg(resp.body.src, resp.body.lo, resp.body.lo + resp.written)
        f2 == FileOf(WriteBytes(base, got))
    IN IF resp.fault = "open" THEN on_exception(f, att)
       ELSE IF resp.fault = "write" THEN on_exception(f2, att)
       ELSE IF resp.complete
            THEN verify_download(f2, expected_checksum, att)
            ELSE on_request_exception(f2, att)

\* One pass through lines 310-384: the GET, the stream, the verification and
\* the exception handlers.  resp.status = 0: the GET raised before a response.
\* Result: next = "true" | "false" (the return value), "continue" (next
\* attempt at once) or "backoff" (sleep, then next attempt).
transfer(f, size, expected_checksum, att, resp) ==
    LET mode == IF resumes(size) THEN "ab" ELSE "wb"
    IN IF resp.status = 0 THEN on_request_exception(f, att)
       ELSE IF raise_for_status(resp.status) THEN on_request_exception(f, att)
       ELSE IF resp.status = 416
            THEN \* restart without Range: unlink, "wb", second GET
                 IF resp.second.status = 0 \/ raise_for_status(resp.second.status)
                 THEN on_request_exception(NoFile, att)
                 ELSE stream(NoFile, "wb", resp.second, expected_checksum, att)
            ELSE stream(f, mode, resp, expected_checksum, att)

\* ------------------------------------------------------- the server
NoBody == Seg("none", 0, 0)
NoSecond ==
    [status |-> 0, body |-> NoBody, written |-> 0, complete |-> FALSE, fault |-> "none"]
Response(st, b, w, c) ==
    [status |-> st, body |-> b, written |-> w, complete |-> c, fault |-> "none",
     second |-> NoSecond]
Second(st, b, w, c) ==
    [status |-> st, body |-> b, written |-> w, complete |-> c, fault |-> "none"]

\* every way a body can reach the file: whole, or broken at a cut
Streams(st, b) ==
    LET len == b.hi - b.lo
    IN {Response(st, b, len, TRUE)}
       \cup {Response(st, b, w, FALSE) : w \in {c \in Cuts \cup {len} : c <= len}}

\* the local filesystem fails under a response: permission denied at open(),
\* or the disk fills up at a cut
Faults(st, b) ==
    LET len == b.hi - b.lo
    IN {[Response(st, b, 0, FALSE) EXCEPT !.fault = "open"]}
       \cup {[Response(st, b, w, FALSE) EXCEPT !.fault = "write"] :
                w \in {c \in Cuts : c < len}}

\* The answers to the GET of request q, sent with or without a Range header
GetResponses(q, ranged, size) ==
    LET full == Seg("remote", 0, q.size)
        page == Seg("errpage", 0, ErrPageSize)
        rest == Seg("remote", size, q.size)
    IN CASE q.server = "up" -> {Response(200, full, q.size, TRUE)}
         [] q.server = "down" -> {Response(500, NoBody, 0, FALSE)}
         [] q.server = "flaky" ->
               {Response(500, NoBody, 0, FALSE), Response(200, full, q.size, TRUE)}
         [] q.server = "disk" -> {Response(500, NoBody, 0, FALSE)} \cup Faults(200, full)
         [] OTHER ->
               {Response(0, NoBody, 0, FALSE), Response(401, NoBody, 0, FALSE),
                Response(500, NoBody, 0, FALSE)}
               \cup Streams(200, full) \cup Streams(200, page)
               \cup Faults(200, full)
               \cup (IF ranged /\ size < q.size THEN Streams(206, rest) ELSE {})
               \cup (IF ranged
                     THEN {[Response(416, NoBody, 0, FALSE) EXCEPT !.second = s] :
                             s \in {Second(200, full, q.size, TRUE),
                                    Second(500, NoBody, 0, FALSE)}}
                     ELSE {})

\* The content-length a HEAD reports; -1: the HEAD request raises
HeadResponses(q) ==
    CASE q.server \in {"up", "flaky", "disk"} -> {q.size}
      [] q.server = "down" -> {-1}
      [] OTHER -> {-1, 0, q.size}


\* ------------------------------------------------- the main thread
\* The as_completed loop: the counters after one future is processed.
\* A future that holds an exception ("Raised") is counted as failed.
count_result_mutant_dropraised(fut, c) ==
    CASE fut = "Skipped" -> [c EXCEPT !.skipped = @ + 1]
      [] fut = "Success" -> [c EXCEPT !.successful = @ + 1]
      [] fut = "Failed" -> [c EXCEPT !.failed = @ + 1]
      [] OTHER -> c
count_result(fut, c) ==
    CASE fut = "Skipped" -> [c EXCEPT !.skipped = @ + 1]
      [] fut = "Success" -> [c EXCEPT !.successful = @ + 1]
      [] OTHER -> [c EXCEPT !.failed = @ + 1]

\* Where a request stands once its future has been processed: the pipeline
\* never submits it again.
after_collect_mutant_resubmit(fut) == IF fut = "Failed" THEN "queued" ELSE "done"
after_collect(fut) == "done"

\* main() returns normally after download_all_models_parallel, whatever
\* the counters are: the interpreter exits with status 0.
main_exit_status(nfailed) == 0

\* load_models_with_checksums: whether a non-empty list comes back.  A
\* missing file, any exception of the parse, and a file without entries all
\* give the empty list.
load_models_with_checksums(status) == status = "ok"

\* load_verified_links: the valid_links of the verification file, which may
\* be empty; a missing or malformed file ends the process with sys.exit(1).
load_verified_links_mutant_empty(status) ==
    IF status = "ok" THEN "links" ELSE "empty"
load_verified_links(status) ==
    CASE status = "ok" -> "links"
      [] status = "empty" -> "empty"
      [] OTHER -> "sys.exit"

\* main() up to download_all_models_parallel: "download" or "links" with a
\* non-empty request list, "empty" with an empty one
\* (download_all_models_parallel returns at once and main() ends normally),
\* "sys.exit" when the process exits with status 1.
load_configuration(models, links) ==
    IF load_models_with_checksums(models) THEN "download" ELSE load_verified_links(links)

\* The worker's local target_path: the destination the worker of request r
\* computed from the URL when it started; no path before that, nor when the
\* entry has no url.
HasTarget(r) == req[r].url /\ dispatched[r] > 0
target ==
    [r \in Requests |-> IF HasTarget(r) THEN target_path(req[r].link) ELSE NoTarget]

\* ThreadPoolExecutor(max_workers=MAX_WORKERS): a submitted task starts only
\* when one of the pool's threads is idle.
executor_can_run_mutant_unbounded(running, workers) == TRUE
executor_can_run(running, workers) == running < workers

\* ------------------------------------------------------------ actions
Running == {r \in Requests : pc[r] \in {"probe", "transfer", "backoff"}}

\* main() reads the configuration.
LoadConfig ==
    /\ phase = "loading"
    /\ LET m == load_configuration(models_json, links_json)
       IN /\ phase' = IF m \in {"download", "links"} THEN "running" ELSE "exited"
          /\ exit_code' = CASE m = "sys.exit" -> 1
                            [] m = "empty" -> main_exit_status(0)
                            [] OTHER -> exit_code
    /\ UNCHANGED <<req, max_workers, models_json, links_json, category, strays, report, removed, command, total_size,
                   file, pc, attempt,
                   existing_size, wait_time, last_status, last_error, netCalls, gets,
                   dispatched, notice, future, counted, successful, failed, skipped,
                   run, prev>>

\* A pool worker takes the next submitted task and runs download_single_model
\* up to the call of download_file_with_resume.
Dispatch(r) ==
    /\ phase \in {"running", "interrupted"}
    /\ pc[r] = "queued"
    /\ \A q \in Requests : q < r => pc[q] # "queued"
    /\ executor_can_run(Cardinality(Running), max_workers)
    /\ dispatched' = [dispatched EXCEPT ![r] = @ + 1]
    /\ IF ~req[r].url
       THEN \* url is None: url.split raises, the future holds the exception
            /\ pc' = [pc EXCEPT ![r] = "returned"]
            /\ future' = [future EXCEPT ![r] = "Raised"]
            /\ UNCHANGED <<file, notice>>
       ELSE LET d == existing_file_check(file[r], req[r].checksum)
            IN IF d = "skip"
               THEN /\ pc' = [pc EXCEPT ![r] = "returned"]
                    /\ future' = [future EXCEPT ![r] = "Skipped"]
                    /\ UNCHANGED <<file, notice>>
               ELSE /\ pc' = [pc EXCEPT ![r] = "probe"]
                    /\ file' = [file EXCEPT ![r] =
                                  IF d \in {"mismatch", "incomplete"} THEN NoFile ELSE @]
                    /\ notice' = [notice EXCEPT ![r] = d]
                    /\ UNCHANGED future
    /\ UNCHANGED <<req, max_workers, models_json, links_json, category, strays, report, removed, command, total_size,
                   attempt,
                   existing_size, wait_time, last_status, last_error, netCalls, gets,
                   counted, successful, failed, skipped, phase, exit_code, run, prev>>

\* The start of an attempt: stat the file and, if it exists, HEAD the URL.
Probe(r) ==
    /\ pc[r] = "probe"
    /\ \E head \in (IF file[r].exists THEN HeadResponses(req[r]) ELSE {-1}) :
          LET p == probe(file[r], req[r].checksum, head)
          IN /\ file' = [file EXCEPT ![r] = p.file]
             /\ netCalls' = [netCalls EXCEPT ![r] = IF file[r].exists THEN @ + 1 ELSE @]
             /\ total_size' = [total_size EXCEPT ![r] =
                                  IF file[r].exists /\ head > 0 THEN head ELSE 0]
             /\ IF p.ret
                THEN /\ pc' = [pc EXCEPT ![r] = "returned"]
                     /\ future' = [future EXCEPT ![r] = "Success"]
                     /\ existing_size' = [existing_size EXCEPT ![r] = 0]
                     /\ attempt' = [attempt EXCEPT ![r] = 0]
                ELSE /\ pc' = [pc EXCEPT ![r] = "transfer"]
                     /\ existing_size' = [existing_size EXCEPT ![r] = p.existing_size]
                     /\ UNCHANGED <<future, attempt>>
    /\ last_status' = [last_status EXCEPT ![r] = 0]
    /\ UNCHANGED <<req, max_workers, models_json, links_json, category, strays, report, removed, command,
                   wait_time, last_error, gets, dispatched, notice,
                   counted, successful, failed, skipped, phase, exit_code, run, prev>>

\* The GET of an attempt, the stream to disk, the verification, and the
\* exception handlers.
Transfer(r) ==
    /\ pc[r] = "transfer"
    /\ \E resp \in GetResponses(req[r], resumes(existing_size[r]), existing_size[r]) :
          LET t == transfer(file[r], existing_size[r], req[r].checksum, attempt[r], resp)
              returns == t.next \in {"true", "false"}
          IN /\ file' = [file EXCEPT ![r] = t.file]
             /\ last_status' = [last_status EXCEPT ![r] = IF returns THEN 0 ELSE resp.status]
             /\ pc' = [pc EXCEPT ![r] = CASE t.next = "backoff" -> "backoff"
                                          [] t.next = "continue" -> "probe"
                                          [] OTHER -> "returned"]
             /\ future' = [future EXCEPT ![r] = CASE t.next = "true" -> "Success"
                                                  [] t.next = "false" -> "Failed"
                                                  [] OTHER -> @]
             /\ attempt' = [attempt EXCEPT ![r] = CASE t.next = "continue" -> @ + 1
                                                    [] returns -> 0
                                                    [] OTHER -> @]
             /\ wait_time' = [wait_time EXCEPT ![r] =
                                 IF t.next = "backoff" THEN backoff_delay(attempt[r]) ELSE 0]
             /\ last_error' = [last_error EXCEPT ![r] = t.err]
    /\ netCalls' = [netCalls EXCEPT ![r] = @ + 1]
    /\ gets' = [gets EXCEPT ![r] = @ + 1]
    /\ existing_size' = [existing_size EXCEPT ![r] = 0]
    /\ total_size' = [total_size EXCEPT ![r] = 0]
    /\ UNCHANGED <<req, max_workers, models_json, links_json, category, strays, report, removed, command,
                   dispatched, notice, counted, successful, failed,
                   skipped, phase, exit_code, run, prev>>

\* time.sleep(wait_time) returns: the loop goes to the next attempt.
Backoff(r) ==
    /\ pc[r] = "backoff"
    /\ pc' = [pc EXCEPT ![r] = "probe"]
    /\ attempt' = [attempt EXCEPT ![r] = @ + 1]
    /\ wait_time' = [wait_time EXCEPT ![r] = 0]
    /\ last_status' = [last_status EXCEPT ![r] = 0]
    /\ UNCHANGED <<req, max_workers, models_json, links_json, category, strays, report, removed, command, total_size,
                   file, existing_size, last_error, netCalls,
                   gets, dispatched, notice, future, counted, successful, failed, skipped,
                   phase, exit_code, run, prev>>

\* One iteration of the as_completed loop.
Collect(r) ==
    /\ phase = "running"
    /\ pc[r] = "returned"
    /\ ~counted[r]
    /\ LET c == count_result(future[r], [successful |-> successful,
                                         failed |-> failed, skipped |-> skipped])
       IN /\ successful' = c.successful
          /\ failed' = c.failed
          /\ skipped' = c.skipped
    /\ counted' = [counted EXCEPT ![r] = TRUE]
    /\ pc' = [pc EXCEPT ![r] = after_collect(future[r])]
    /\ UNCHANGED <<req, max_workers, models_json, links_json, category, strays, report, removed, command, total_size,
                   file, attempt, existing_size, wait_time,
                   last_status, last_error, netCalls, gets, dispatched, notice, future,
                   phase, exit_code, run, prev>>

\* The pool is drained: the statistics are printed, main() writes the summary
\* and returns.
Exit ==
    /\ phase = "running"
    /\ \A r \in Requests : pc[r] = "done"
    /\ phase' = "exited"
    /\ exit_code' = main_exit_status(failed)
    /\ UNCHANGED <<req, max_workers, models_json, links_json, category, strays, report, removed, command, total_size,
                   file, pc, attempt, existing_size, wait_time,
                   last_status, last_error, netCalls, gets, dispatched, notice, future,
                   counted, successful, failed, skipped, run, prev>>

\* The script is run again with the same configuration over the same
\* models directory.
Rerun ==
    /\ phase = "exited"
    /\ run < MaxRuns
    /\ run' = run + 1
    /\ prev' = future
    /\ phase' = "loading"
    /\ exit_code' = -1
    /\ pc' = [r \in Requests |-> "queued"]
    /\ future' = [r \in Requests |-> "pending"]
    /\ counted' = [r \in Requests |-> FALSE]
    /\ netCalls' = [r \in Requests |-> 0]
    /\ gets' = [r \in Requests |-> 0]
    /\ last_error' = [r \in Requests |-> "none"]
    /\ dispatched' = [r \in Requests |-> 0]
    /\ notice' = [r \in Requests |-> "fetch"]
    /\ successful' = 0
    /\ failed' = 0
    /\ skipped' = 0
    /\ command' = "download"
    /\ total_size' = [r \in Requests |-> 0]
    /\ report' = [r \in Requests |-> "none"]
    /\ removed' = 0
    /\ UNCHANGED <<req, max_workers, models_json, links_json, category, strays,
                   file, attempt, existing_size, wait_time, last_status>>

\* SIGINT during the run: KeyboardInterrupt is raised in the main thread,
\* which waits in as_completed.  No handler catches it (`except Exception`
\* does not), so the with-block of the executor is left through __exit__,
\* that is shutdown(wait=True): the futures are not cancelled, the workers
\* go on with the running and the queued tasks, and the main thread joins
\* them.  No further future is counted.
Interrupt ==
    /\ phase = "running"
    /\ phase' = "interrupted"
    /\ UNCHANGED <<req, max_workers, models_json, links_json, category, strays, report, removed, command, total_size,
                   file, pc, attempt,
                   existing_size, wait_time, last_status, last_error, netCalls, gets,
                   dispatched, notice, future, counted, successful, failed, skipped,
                   exit_code, run, prev>>

\* The exit status of the interpreter that ends with KeyboardInterrupt
SIGINT_EXIT_STATUS == 130

\* The pool has run every task: the join returns, KeyboardInterrupt leaves
\* main() and the interpreter ends.
InterruptedExit ==
    /\ phase = "interrupted"
    /\ \A r \in Requests : pc[r] \in {"returned", "done"}
    /\ phase' = "exited"
    /\ exit_code' = SIGINT_EXIT_STATUS
    /\ UNCHANGED <<req, max_workers, models_json, links_json, category, strays, report, removed, command, total_size,
                   file, pc, attempt,
                   existing_size, wait_time, last_status, last_error, netCalls, gets,
                   dispatched, notice, future, counted, successful, failed, skipped,
                   run, prev>>

\* ------------------------------------------------- model_manager.py
\* load_models_config: "config" when a non-empty dict comes back, "none"
\* when the file is missing or holds no entry (the commands then print
\* "Could not load" and return), "raise" when json.load raises.
load_models_config(status) ==
    CASE status = "ok" -> "config"
      [] status = "malformed" -> "raise"
      [] OTHER -> "none"

\* urlparse(url).path.split("/")[-1]
manager_filename(url) == path_filename(urlparse_path(url))

\* The name download_single_model gave the file of the entry
target_filename(url) == path_filename(urlparse_path(split_query(url)))

\* The file at models/<directory>/<filename>: a stray (bytes that are no
\* download), or the destination file of an entry.
file_at(directory, filename) ==
    LET path == [directory |-> directory, filename |-> filename]
        owners == {q \in Requests :
                      req[q].url /\ file[q].exists /\ target_path(req[q].link) = path}
    IN IF path \in strays THEN FileOf(<<Seg("local", 0, LargeRemote)>>)
       ELSE IF owners # {} THEN file[CHOOSE q \in owners : TRUE]
       ELSE NoFile
path_exists(directory, filename) == file_at(directory, filename).exists

\* update_models: the entries whose file name is found in some directory
\* under models/.  An entry without url gives the file name "", and
\* category_dir / "" is the directory itself, which exists.
installed_models ==
    {r \in Requests :
        \/ ~req[r].url
        \/ \E s \in strays : s.filename = manager_filename(req[r].link)
        \/ \E q \in Requests :
              /\ req[q].url /\ file[q].exists
              /\ target_filename(req[q].link) = manager_filename(req[r].link)}

\* The answer to a yes/no prompt: "notty" when stdin is no terminal and
\* the prompt is skipped.
Answers == {"notty", "y", "n"}

\* update: the parallel download runs over the installed entries.
UpdateModels(answer) ==
    /\ phase = "exited"
    /\ run < MaxRuns
    /\ command' = "update"
    /\ IF \/ answer = "n"
          \/ ~load_models_with_checksums(models_json)
          \/ installed_models = {}
       THEN /\ exit_code' = 0
            /\ UNCHANGED <<phase, run, prev, pc, future, counted, netCalls, gets,
                           last_error, dispatched, notice, successful, failed, skipped,
                           total_size>>
       ELSE /\ phase' = "running"
            /\ exit_code' = -1
            /\ run' = run + 1
            /\ prev' = future
            /\ pc' = [r \in Requests |-> IF r \in installed_models THEN "queued" ELSE "done"]
            /\ future' = [r \in Requests |-> "pending"]
            /\ counted' = [r \in Requests |-> FALSE]
            /\ netCalls' = [r \in Requests |-> 0]
            /\ gets' = [r \in Requests |-> 0]
            /\ last_error' = [r \in Requests |-> "none"]
            /\ dispatched' = [r \in Requests |-> 0]
            /\ notice' = [r \in Requests |-> "fetch"]
            /\ successful' = 0
            /\ failed' = 0
            /\ skipped' = 0
            /\ total_size' = [r \in Requests |-> 0]
    /\ report' = [r \in Requests |-> "none"]
    /\ removed' = 0
    /\ UNCHANGED <<req, max_workers, models_json, links_json, category, strays,
                   file, attempt, existing_size, wait_time, last_status>>

\* prune: known_models, the lower-cased file names of the configured URLs
known_models ==
    {str_lower(manager_filename(req[r].link)) :
        r \in {q \in Requests : req[q].url /\ manager_filename(req[q].link) # <<>>}}

\* prune: whether the files found are removed
prune_removes_mutant_nodryrun(dry_run, answer) == answer # "n"
prune_removes(dry_run, answer) == ~dry_run /\ answer # "n"

\* prune: the unknown files are listed; without dry_run, and unless the
\* prompt is answered with something else than y, each is unlinked.  An
\* unlink that raises is reported and the file stays (`kept`).
PruneUnusedModels(dry_run, answer) ==
    /\ phase = "exited"
    /\ command' = IF dry_run THEN "prune" ELSE "prune --no-dry-run"
    /\ exit_code' = IF load_models_config(models_json) = "raise" THEN 1 ELSE 0
    /\ IF load_models_config(models_json) = "config" /\ prune_removes(dry_run, answer)
       THEN LET known == known_models
                unknown_entries ==
                    {r \in Requests :
                        /\ req[r].url /\ file[r].exists
                        /\ str_lower(target_filename(req[r].link)) \notin known}
                unknown_strays ==
                    {f \in strays : str_lower(f.filename) \notin known}
            IN \E kept \in SUBSET unknown_strays :
                  /\ strays' = (strays \ unknown_strays) \cup kept
                  /\ file' = [r \in Requests |->
                                 IF r \in unknown_entries THEN NoFile ELSE file[r]]
                  /\ removed' = Cardinality(unknown_strays \ kept)
                                   + Cardinality(unknown_entries)
       ELSE /\ removed' = 0
            /\ UNCHANGED <<strays, file>>
    /\ report' = [r \in Requests |-> "none"]
    /\ UNCHANGED <<req, max_workers, models_json, links_json, category,
                   pc, attempt, existing_size, wait_time, last_status, last_error,
                   netCalls, gets, dispatched, notice, future, counted, successful,
                   failed, skipped, phase, run, prev, total_size>>

\* verify: what is printed for one entry.  Entries without a checksum key
\* are not looked at ("none").
verify_entry(r) ==
    IF ~req[r].checksum.given THEN "none"
    ELSE LET filename == manager_filename(req[r].link)
         IN IF ~path_exists(category[r], filename) THEN "missing"
            ELSE IF lower(hexdigest(file_at(category[r], filename).data))
                        = lower(req[r].checksum)
                 THEN "verified" ELSE "failed"

VerifyChecksums ==
    /\ phase = "exited"
    /\ command' = "verify"
    /\ exit_code' = IF load_models_config(models_json) = "raise" THEN 1 ELSE 0
    /\ report' = IF load_models_config(models_json) = "config"
                  THEN [r \in Requests |-> verify_entry(r)]
                  ELSE [r \in Requests |-> "none"]
    /\ removed' = 0
    /\ UNCHANGED <<req, max_workers, models_json, links_json, category, strays,
                   file, pc, attempt, existing_size, wait_time, last_status,
                   last_error, netCalls, gets, dispatched, notice, future, counted,
                   successful, failed, skipped, phase, run, prev, total_size>>

Next ==
    \/ LoadConfig
    \/ \E r \in Requests : Dispatch(r)
    \/ \E r \in Requests : Probe(r)
    \/ \E r \in Requests : Transfer(r)
    \/ \E r \in Requests : Backoff(r)
    \/ \E r \in Requests : Collect(r)
    \/ Exit
    \/ Rerun

\* ---------------------------------------------------------- initial states
\* The digests a configuration entry may carry for a resource of n bytes:
\* none, the resource's digest in either case, or some other digest.
Checksums(n) ==
    {NoChecksum, Checksum(Remote(n), FALSE), Checksum(Remote(n), TRUE),
     Checksum(<<Seg("local", 0, n)>>, FALSE)}

\* What may lie at the destination before the first run: nothing, a prefix of
\* the resource, the resource, or other bytes.
LocalFiles(n) ==
    {NoFile, FileOf(Remote(n)), FileOf(<<Seg("local", 0, LargeRemote)>>)}
    \cup {FileOf(RemotePrefix(k)) : k \in {c \in Cuts : c < n}}

StartOfProcess(rs) ==
    /\ pc = [r \in rs |-> "queued"]
    /\ attempt = [r \in rs |-> 0]
    /\ existing_size = [r \in rs |-> 0]
    /\ wait_time = [r \in rs |-> 0]
    /\ last_status = [r \in rs |-> 0]
    /\ netCalls = [r \in rs |-> 0]
    /\ gets = [r \in rs |-> 0]
    /\ last_error = [r \in rs |-> "none"]
    /\ dispatched = [r \in rs |-> 0]
    /\ notice = [r \in rs |-> "fetch"]
    /\ future = [r \in rs |-> "pending"]
    /\ counted = [r \in rs |-> FALSE]
    /\ prev = [r \in rs |-> "pending"]
    /\ successful = 0
    /\ failed = 0
    /\ skipped = 0
    /\ phase = "loading"
    /\ exit_code = -1
    /\ run = 1
    /\ total_size = [r \in rs |-> 0]
    /\ command = "download"
    /\ report = [r \in rs |-> "none"]
    /\ removed = 0

\* download_models.py alone: it reads no category, and nothing else has
\* written under models/.
StartOfRun(rs) ==
    /\ StartOfProcess(rs)
    /\ category = [r \in rs |-> "checkpoints"]
    /\ strays = {}

\* The URL of the r-th entry of a list whose URLs name different files
HuggingFace == <<"h", "t", "t", "p", "s", ":", "/", "/", "h", "f", ".", "c", "o">>
LinkOf(r) ==
    HuggingFace \o <<"/", "m">> \o <<<<"1", "2", "3", "4", "5", "6", "7", "8", "9">>[r]>> \o <<".", "s", "a", "f", "e", "t", "e", "n", "s", "o", "r", "s">>

\* One request, every configuration, every server behaviour.
Init ==
    /\ \E n \in RemoteSizes, ck \in UNION {Checksums(m) : m \in RemoteSizes}, u \in BOOLEAN :
          /\ ck \in Checksums(n)
          /\ req = [r \in {1} |-> [url |-> u, link |-> IF u THEN LinkOf(1) ELSE <<>>,
                                    size |-> n, checksum |-> ck, server |-> "any"]]
    /\ file \in [{1} -> UNION {LocalFiles(m) : m \in RemoteSizes}]
    /\ file[1] \in LocalFiles(req[1].size)
    /\ max_workers = DEFAULT_MAX_WORKERS
    /\ models_json = "ok"
    /\ links_json = "ok"
    /\ StartOfRun({1})

Spec == Init /\ [][Next]_vars


\* A request list of PipelineRequests entries served by a pool of 2 or of
\* MAX_WORKERS workers.  Each entry is one of: a download that succeeds with
\* a matching digest, a destination already complete, a URL that answers 500 to everything, a digest no download can
\* match, an entry without a url.
Entry(u, ck, sv) ==
    [url |-> u, link |-> <<>>, size |-> LargeRemote, checksum |-> ck, server |-> sv]
Linked(q, l) == [q EXCEPT !.link = IF q.url THEN l ELSE <<>>]
PipelineEntries ==
    LET good == Checksum(Remote(LargeRemote), FALSE)
        bad == Checksum(<<Seg("local", 0, LargeRemote)>>, FALSE)
    IN {<<Entry(TRUE, good, "up"), NoFile>>,
        <<Entry(TRUE, good, "up"), FileOf(Remote(LargeRemote))>>,
        <<Entry(TRUE, NoChecksum, "down"), NoFile>>,
        <<Entry(TRUE, bad, "up"), NoFile>>,
        <<Entry(FALSE, NoChecksum, "up"), NoFile>>}

InitPipeline ==
    /\ \E e \in [1..PipelineRequests -> PipelineEntries] :
          /\ req = [r \in 1..PipelineRequests |-> Linked(e[r][1], LinkOf(r))]
          /\ file = [r \in 1..PipelineRequests |-> e[r][2]]
    /\ max_workers \in {2, DEFAULT_MAX_WORKERS}
    /\ models_json = "ok"
    /\ links_json = "ok"
    /\ StartOfRun(1..PipelineRequests)

SpecPipeline == InitPipeline /\ [][Next]_vars

\* The same lists, run by an operator who may press Ctrl-C.
NextCancel == Next \/ Interrupt \/ InterruptedExit
SpecCancel == InitPipeline /\ [][NextCancel]_vars

\* A request list of FaultRequests entries served by a pool of 2 workers
\* (DOWNLOAD_MAX_WORKERS=2), each entry one of: a download that
\* succeeds, a partial file without a digest, a URL that answers 500 to
\* everything, and an entry whose destination cannot be opened or written:
\* its GET answers 500 or 200, and under a 200 open() or f.write() raises
\* OSError.
FaultEntries ==
    {<<Entry(TRUE, Checksum(Remote(LargeRemote), FALSE), "up"), NoFile>>,
     <<Entry(TRUE, NoChecksum, "up"), FileOf(RemotePrefix(2 * chunk_size))>>,
     <<Entry(TRUE, NoChecksum, "down"), NoFile>>,
     <<Entry(TRUE, NoChecksum, "disk"), NoFile>>}

InitFault ==
    /\ \E e \in [1..FaultRequests -> FaultEntries] :
          /\ req = [r \in 1..FaultRequests |-> Linked(e[r][1], LinkOf(r))]
          /\ file = [r \in 1..FaultRequests |-> e[r][2]]
    /\ max_workers = 2
    /\ models_json = "ok"
    /\ links_json = "ok"
    /\ StartOfRun(1..FaultRequests)

SpecFault == InitFault /\ [][Next]_vars

\* Lists whose requests take every way through the attempts: a digest that
\* never matches, a server that fails and recovers, a valid file in
\* place, an entry without url.  Every network call returns
\* and every sleep ends (weak fairness of the workers' steps), the pool runs
\* what was submitted and the main thread consumes what has completed.
LiveEntries ==
    {<<Entry(TRUE, Checksum(<<Seg("local", 0, LargeRemote)>>, FALSE), "up"), NoFile>>,
     <<Entry(TRUE, NoChecksum, "flaky"), NoFile>>,
     <<Entry(TRUE, Checksum(Remote(LargeRemote), FALSE), "down"), FileOf(Remote(LargeRemote))>>,
     <<Entry(FALSE, NoChecksum, "up"), NoFile>>}

InitLive ==
    /\ \E e \in [1..LiveRequests -> LiveEntries] :
          /\ req = [r \in 1..LiveRequests |-> Linked(e[r][1], LinkOf(r))]
          /\ file = [r \in 1..LiveRequests |-> e[r][2]]
    /\ max_workers \in {1, 2}
    /\ models_json = "ok"
    /\ links_json = "ok"
    /\ StartOfRun(1..LiveRequests)

Fairness ==
    /\ WF_vars(LoadConfig)
    /\ \A r \in 1..LiveRequests :
          /\ WF_vars(Dispatch(r))
          /\ WF_vars(Probe(r))
          /\ WF_vars(Transfer(r))
          /\ WF_vars(Backoff(r))
          /\ WF_vars(Collect(r))

SpecLive == InitLive /\ [][Next]_vars /\ Fairness

\* An operator who runs download_models.py and the commands of
\* model_manager.py, one after the other, over the same models directory.
\* The first entry names a VAE, listed under either of two keys of
\* models_download.json, with or without a checksum, present or not; the
\* others are checkpoints listed as such, on a server that may fail.
VaeLink == HuggingFace \o <<"/", "V", "a", "e", ".", "p", "t", "?", "d", "o", "w", "n", "l", "o", "a", "d", "=", "t", "r", "u", "e">>
ManagerCategories == {"vae", "checkpoints"}
StrayFiles ==
    {[directory |-> "loras", filename |-> <<"o", "l", "d", ".", "p", "t">>],
     [directory |-> "loras", filename |-> <<"V", "A", "E", ".", "P", "T">>]}

InitManager ==
    /\ \E ck \in {NoChecksum, Checksum(Remote(LargeRemote), FALSE)} :
          req = [r \in 1..ManagerRequests |->
                    IF r = 1 THEN Linked(Entry(TRUE, ck, "up"), VaeLink)
                    ELSE Linked(Entry(TRUE, Checksum(Remote(LargeRemote), FALSE), "flaky"),
                                LinkOf(r))]
    /\ \E f \in {NoFile, FileOf(Remote(LargeRemote))} :
          file = [r \in 1..ManagerRequests |-> IF r = 1 THEN f ELSE NoFile]
    /\ \E c \in ManagerCategories :
          category = [r \in 1..ManagerRequests |-> IF r = 1 THEN c ELSE "checkpoints"]
    /\ strays \in {{}, StrayFiles}
    /\ max_workers = DEFAULT_MAX_WORKERS
    /\ models_json \in {"ok", "missing", "malformed"}
    /\ links_json = "ok"
    /\ StartOfProcess(1..ManagerRequests)

NextManager ==
    \/ Next
    \/ \E answer \in Answers : UpdateModels(answer)
    \/ \E dry_run \in BOOLEAN, answer \in Answers : PruneUnusedModels(dry_run, answer)
    \/ VerifyChecksums

SpecManager == InitManager /\ [][NextManager]_vars

\* A request list of ConfigRequests entries under every state of the two
\* configuration files.  req holds the entries of the file main() ends up
\* reading: those of models_download.json when it loads, else the valid_links
\* of link_verification_results.json, which are bare URLs without digests.
FileStates == {"ok", "empty", "missing", "malformed"}

InitConfig ==
    /\ models_json \in FileStates
    /\ links_json \in FileStates
    /\ \E e \in [1..ConfigRequests -> PipelineEntries] :
          /\ req = [r \in 1..ConfigRequests |-> Linked(e[r][1], LinkOf(r))]
          /\ file = [r \in 1..ConfigRequests |-> e[r][2]]
    /\ models_json # "ok"
          => \A r \in 1..ConfigRequests : req[r].url /\ ~req[r].checksum.given
    /\ max_workers = DEFAULT_MAX_WORKERS
    /\ StartOfRun(1..ConfigRequests)

SpecConfig == InitConfig /\ [][Next]_vars

\* One request whose URL ends in a file name made of a stem of up to
\* MaxFragments fragments and an extension, directly under the host or in a
\* repository folder with a query string; the server answers 500 or the
\* resource.
Fragments ==
    {<<"F", "l", "u", "x">>,
     <<"v", "a", "e">>,
     <<"c", "l", "i", "p">>,
     <<"t", "5">>,
     <<"l", "o", "r", "a">>,
     <<"c", "o", "n", "t", "r", "o", "l", "_">>,
     <<"m", "o", "d", "e", "l">>}
Extensions ==
    {<<".", "s", "a", "f", "e", "t", "e", "n", "s", "o", "r", "s">>,
     <<".", "c", "k", "p", "t">>,
     <<".", "p", "t", "h">>}

RECURSIVE Stems(_)
Stems(k) ==
    IF k = 0 THEN {<<>>}
    ELSE LET S == Stems(k - 1) IN S \cup {x \o f : x \in S, f \in Fragments}

FileNames == {x \o e : x \in Stems(MaxFragments) \ {<<>>}, e \in Extensions}

UrlForms ==
    {<<<<"/">>, <<>>>>,
     <<<<"/", "o", "r", "g", "/", "r", "e", "p", "o", "/", "r", "e", "s", "o", "l", "v", "e", "/", "m", "a", "i", "n", "/">>,
       <<"?", "d", "o", "w", "n", "l", "o", "a", "d", "=", "t", "r", "u", "e">>>>}

ClassifyLinks == {HuggingFace \o f[1] \o n \o f[2] : f \in UrlForms, n \in FileNames}

InitClassify ==
    /\ \E l \in ClassifyLinks :
          req = [r \in {1} |-> Linked(Entry(TRUE, NoChecksum, "flaky"), l)]
    /\ file = [r \in {1} |-> NoFile]
    /\ max_workers = DEFAULT_MAX_WORKERS
    /\ models_json = "ok"
    /\ links_json = "ok"
    /\ StartOfRun({1})

SpecClassify == InitClassify /\ [][Next]_vars

\* A request list of ResolveRequests entries with pairwise different URLs,
\* as tests/test_models.py::test_no_duplicate_urls demands of the
\* configuration: two folders, three file names, with or without a query.
ResolveFolders == {<<"/", "a", "/">>, <<"/", "b", "/">>}
ResolveNames ==
    {<<"v", "a", "e", ".", "s", "a", "f", "e", "t", "e", "n", "s", "o", "r", "s">>,
     <<"V", "a", "e", ".", "s", "a", "f", "e", "t", "e", "n", "s", "o", "r", "s">>,
     <<"m", "o", "d", "e", "l", ".", "c", "k", "p", "t">>}
ResolveQueries == {<<>>, <<"?", "d", "o", "w", "n", "l", "o", "a", "d", "=", "t", "r", "u", "e">>}
ResolveLinks ==
    {HuggingFace \o d \o n \o q :
        d \in ResolveFolders, n \in ResolveNames, q \in ResolveQueries}

InitResolve ==
    /\ \E ls \in [1..ResolveRequests -> ResolveLinks] :
          /\ \A r, q \in 1..ResolveRequests : r # q => ls[r] # ls[q]
          /\ req = [r \in 1..ResolveRequests |->
                      Linked(Entry(TRUE, NoChecksum, IF r = 1 THEN "flaky" ELSE "up"), ls[r])]
    /\ file = [r \in 1..ResolveRequests |-> NoFile]
    /\ max_workers = DEFAULT_MAX_WORKERS
    /\ models_json = "ok"
    /\ links_json = "ok"
    /\ StartOfRun(1..ResolveRequests)

SpecResolve == InitResolve /\ [][Next]_vars


\* ------------------------------------------------------------ properties
Outcomes == {"Success", "Skipped", "Failed", "Raised"}

\* The file's SHA-256 equals the supplied digest, as hex numbers
DigestEqual(f, ck) == f.exists /\ f.data = ck.of

\* The destination holds exactly the remote resource
IsComplete(r) == file[r].exists /\ file[r].data = Remote(req[r].size)

\* The destination holds the first K bytes of the remote resource, K < N
IsStrictPrefix(f, n) ==
    /\ f.exists
    /\ \E k \in 0..(n - 1) : f.data = RemotePrefix(k) /\ Size(f.data) = k

\* The digest of the remote resource was supplied
DigestOfRemote(r) ==
    req[r].checksum.given /\ req[r].checksum.of = Remote(req[r].size)

\* An existing destination file that is valid: above the floor and, if a
\* digest is supplied, of that digest.
ValidExisting(r) ==
    /\ file[r].exists
    /\ Size(file[r].data) > MinValidSize
    /\ req[r].checksum.given => DigestEqual(file[r], req[r].checksum)

\* C1: a request whose destination file exists and is valid when a worker
\* reaches it is Skipped with the file untouched, and no HEAD or GET is
\* issued for a Skipped request at any time of the run.
C1_ValidExistingSkipped ==
    [][\A r \in Requests :
          /\ (pc[r] = "queued" /\ pc'[r] # "queued" /\ req[r].url /\ ValidExisting(r))
                => (future'[r] = "Skipped" /\ file'[r] = file[r])
          /\ future'[r] = "Skipped" => netCalls'[r] = 0
          /\ (future[r] = "Skipped" /\ run' = run)
                => (future'[r] = "Skipped" /\ file'[r] = file[r])]_vars

C1_Witness ==
    \E r \in Requests :
        /\ future[r] = "Skipped" /\ counted[r] /\ netCalls[r] = 0
        /\ req[r].checksum.given /\ req[r].checksum.upper
        /\ ValidExisting(r)

\* C2: whenever a fetch with a supplied digest has ended in Success, the
\* digest of the destination file equals the supplied digest.
C2_SuccessDigestMatches ==
    \A r \in Requests :
        (future[r] = "Success" /\ req[r].checksum.given)
            => DigestEqual(file[r], req[r].checksum)

C2_Witness ==
    \E r \in Requests :
        /\ future[r] = "Success" /\ req[r].checksum.given
        /\ DigestEqual(file[r], req[r].checksum)
        /\ netCalls[r] > 1

\* C3 (as claimed): no request ends in Success while its destination file
\* is at or below the minimum-size floor.
C3_SuccessAboveFloor ==
    \A r \in Requests :
        future[r] = "Success" => (file[r].exists /\ Size(file[r].data) > MinValidSize)

C5_SecondRunSkips ==
    [][\A r \in Requests :
          (/\ run > 1 /\ prev[r] = "Success" /\ IsComplete(r)
           /\ pc[r] = "queued" /\ pc'[r] # "queued")
              => (future'[r] = "Skipped" /\ file'[r] = file[r] /\ netCalls'[r] = 0)]_vars

\* C6 (as claimed): an attempt that starts from a strict prefix of the remote
\* resource and ends the fetch in Success leaves exactly the remote resource
\* (stated for the case that every byte on disk came from the resource).
C6_ResumeYieldsRemote ==
    [][\A r \in Requests :
          (/\ pc[r] = "transfer"
           /\ IsStrictPrefix(file[r], req[r].size)
           /\ future'[r] = "Success"
           /\ \A i \in 1..Len(file'[r].data) : file'[r].data[i].src = "remote")
              => file'[r].data = Remote(req[r].size)]_vars

\* C7 (as claimed): a 416 answer to a range request consumes no attempt,
\* triggers no backoff and does not leave the partial file in place.
C7_RangeRejectedRestarts ==
    [][\A r \in Requests :
          (pc[r] = "transfer" /\ last_status'[r] = 416)
              => /\ pc'[r] # "backoff"
                 /\ wait_time'[r] = 0
                 /\ file'[r] # file[r]]_vars

\* C8 (as claimed): the process exits with 0 when every request ended in
\* Success or Skipped and with a non-zero status when one ended in Failed.
C8_ExitStatus ==
    phase = "exited" =>
        /\ (\A r \in Requests : future[r] \in {"Success", "Skipped"}) => exit_code = 0
        /\ (\E r \in Requests : future[r] = "Failed") => exit_code # 0

\* C9: the counters hold, at every moment, the number of processed futures
\* of each outcome (an exception counts as failed), and when the pipeline
\* completes every request has been counted: the three counters add up to
\* the number of requests.
Processed(os) == Cardinality({r \in Requests : counted[r] /\ future[r] \in os})
C9_CountersMatchOutcomes ==
    /\ successful = Processed({"Success"})
    /\ skipped = Processed({"Skipped"})
    /\ failed = Processed({"Failed", "Raised"})
    /\ phase = "exited" =>
          /\ \A r \in Requests : counted[r] /\ future[r] \in Outcomes
          /\ successful + skipped + failed = Cardinality(Requests)

\* One download with a matching digest, one destination already complete
\* with a matching digest, one URL that failed all 3 attempts: 1, 1, 1.
C9_Witness ==
    /\ phase = "exited" /\ successful = 1 /\ skipped = 1 /\ failed = 1
    /\ \E a, b, c \in Requests :
          /\ future[a] = "Success" /\ DigestOfRemote(a) /\ IsComplete(a)
          /\ future[b] = "Skipped" /\ DigestOfRemote(b) /\ IsComplete(b)
          /\ future[c] = "Failed" /\ req[c].server = "down" /\ netCalls[c] = retry_count

\* C10: every request is handed to a worker at most once in a run, and
\* exactly once by the time the run completes, when each has an outcome; a
\* run in progress can always take a step, whatever has failed; a request
\* that reached Failed is not fetched again within the run.
C10_FailureDoesNotAbort ==
    /\ [](phase = "running" => ENABLED Next)
    /\ [][\A r \in Requests :
             /\ dispatched'[r] <= 1
             /\ phase' = "exited" => (dispatched'[r] = 1 /\ future'[r] \in Outcomes)
             /\ (future[r] = "Failed" /\ run' = run)
                   => /\ future'[r] = "Failed"
                      /\ netCalls'[r] = netCalls[r]
                      /\ file'[r] = file[r]
                      /\ dispatched'[r] = dispatched[r]]_vars

\* A run completed with a failed request and a successful one dispatched
\* after it.
C10_Witness ==
    /\ phase = "exited"
    /\ \E a, b \in Requests :
          /\ a < b /\ future[a] = "Failed" /\ future[b] = "Success"
          /\ dispatched[a] = 1 /\ dispatched[b] = 1


ClaimedDelay(k) == IF (2 ^ k) * 5 < 60 THEN (2 ^ k) * 5 ELSE 60
C12_BackoffDelays ==
    /\ \A k \in 1..MaxAttemptsChecked :
          /\ backoff_delay(k - 1) = ClaimedDelay(k)
          /\ backoff_delay(k - 1) <= 60
          /\ k > 1 => backoff_delay(k - 2) <= backoff_delay(k - 1)
    /\ \A r \in Requests :
          /\ pc[r] = "backoff" => wait_time[r] = ClaimedDelay(gets[r])
          /\ pc[r] # "backoff" => wait_time[r] = 0

\* The second failed attempt is followed by a sleep of 20 seconds.
C12_Witness ==
    \E r \in Requests : pc[r] = "backoff" /\ gets[r] = 2 /\ wait_time[r] = 20

\* C13 (as claimed): a fetch that ended in Failed because of a digest
\* mismatch leaves no file at the destination path.
C13_MismatchLeavesNoFile ==
    \A r \in Requests :
        (future[r] = "Failed" /\ last_error[r] = "checksum") => ~file[r].exists


\* C14: an existing destination file smaller than the floor is deleted and
\* fetched, with or without a digest and also when its digest matches; a
\* Skipped request never rests on a file below the floor.
C14_BelowFloorRefetched ==
    [][\A r \in Requests :
          /\ (/\ pc[r] = "queued" /\ pc'[r] # "queued" /\ req[r].url
              /\ file[r].exists /\ Size(file[r].data) < MinValidSize)
                => (file'[r] = NoFile /\ pc'[r] = "probe" /\ future'[r] = "pending")
          /\ future'[r] = "Skipped" => Size(file'[r].data) >= MinValidSize]_vars

\* The complete small file of the previous run, whose digest matches, was
\* found incomplete and deleted, and a GET has been issued for it.
C14_Witness ==
    \E r \in Requests :
        /\ run = 2 /\ prev[r] = "Success" /\ DigestOfRemote(r)
        /\ notice[r] = "incomplete" /\ gets[r] = 1

\* C15: for an existing file above the floor with a supplied digest, the
\* request is Skipped exactly when the file's SHA-256 equals the digest as a
\* hex number of either case; otherwise the file is deleted before the fetch
\* starts, and the first transfer of the fetch starts with no file and no
\* byte offset.
C15_SkipIffDigestEqual ==
    [][\A r \in Requests :
          /\ (/\ pc[r] = "queued" /\ pc'[r] # "queued" /\ req[r].url
              /\ file[r].exists /\ Size(file[r].data) > MinValidSize
              /\ req[r].checksum.given)
                => /\ future'[r] = "Skipped" <=> DigestEqual(file[r], req[r].checksum)
                   /\ ~DigestEqual(file[r], req[r].checksum)
                         => (file'[r] = NoFile /\ pc'[r] = "probe" /\ attempt'[r] = 0)
          /\ (pc'[r] = "transfer" /\ gets'[r] = 0 /\ notice'[r] = "mismatch")
                => (~file'[r].exists /\ existing_size'[r] = 0
                    /\ ~resumes(existing_size'[r]))]_vars

\* A file above the floor failed the digest given in upper case and was
\* deleted; the first transfer is about to start from nothing.
C15_Witness ==
    \E r \in Requests :
        /\ notice[r] = "mismatch" /\ req[r].checksum.upper
        /\ pc[r] = "transfer" /\ gets[r] = 0 /\ existing_size[r] = 0


\* C19: an attempt that fails with an operating-system error (open() or
\* f.write() raising) fails the request at once, with no wait and no further
\* attempt, however many attempts are left; the failure is final within the
\* run; the step changes nothing of any other request, and the requests whose
\* server is up still end as Success or Skipped.
C19_OSErrorFailsAtOnce ==
    [][\A r \in Requests :
          /\ (pc[r] = "transfer" /\ gets'[r] = gets[r] + 1 /\ last_error'[r] = "os")
                => /\ future'[r] = "Failed" /\ pc'[r] = "returned" /\ wait_time'[r] = 0
                   /\ \A o \in Requests \ {r} :
                         /\ pc'[o] = pc[o] /\ file'[o] = file[o]
                         /\ future'[o] = future[o] /\ gets'[o] = gets[o]
          /\ (future[r] = "Failed" /\ last_error[r] = "os" /\ run' = run)
                => (future'[r] = "Failed" /\ gets'[r] = gets[r])
          /\ (phase' = "exited" /\ req[r].url /\ req[r].server = "up"
              /\ (req[r].checksum.given => req[r].checksum.of = Remote(req[r].size)))
                => future'[r] \in {"Success", "Skipped"}]_vars

\* A request failed on a disk error at its second GET, with one attempt
\* left, next to a request that was downloaded.
C19_Witness ==
    \E r \in Requests, o \in Requests :
        /\ r # o /\ phase = "exited"
        /\ future[r] = "Failed" /\ last_error[r] = "os" /\ gets[r] = 2
        /\ future[o] = "Success" /\ gets[o] = 1


\* C18 as stated: when models_download.json is missing or malformed, no
\* request is dispatched and no network call is made.
C18_ModelsFileErrorIsFatal ==
    models_json \in {"missing", "malformed"}
        => \A r \in Requests : dispatched[r] = 0 /\ netCalls[r] = 0 /\ pc[r] = "queued"

\* C18, amended: when models_download.json is missing or malformed and the
\* verification file main() falls back to is missing or malformed too, the
\* process exits with status 1 before any request is dispatched or any
\* network call is made; it never enters the download phase.
C18_BothFilesErrorIsFatal ==
    (models_json \in {"missing", "malformed"} /\ links_json \in {"missing", "malformed"})
        => /\ \A r \in Requests : dispatched[r] = 0 /\ netCalls[r] = 0 /\ pc[r] = "queued"
           /\ phase \in {"loading", "exited"}
           /\ phase = "exited" => exit_code = 1

\* The process has exited on a malformed models_download.json and a missing
\* verification file.
C18_Witness ==
    /\ models_json = "malformed" /\ links_json = "missing"
    /\ phase = "exited" /\ exit_code = 1


\* The lower-cased final path segment of the request's URL
LowerName(r) == str_lower(path_filename(urlparse_path(req[r].link)))

IsVaeSafetensors(r) ==
    /\ HasTarget(r)
    /\ contains(LowerName(r), <<"v", "a", "e">>)
    /\ endswith(LowerName(r), <<".", "s", "a", "f", "e", "t", "e", "n", "s", "o", "r", "s">>)

\* C16 as stated: every file name that contains "vae" and ends in
\* ".safetensors" resolves to the vae category, whatever other keywords of
\* the mapping table it contains.
C16_VaeSafetensorsIsVae ==
    \A r \in Requests : IsVaeSafetensors(r) => target[r].directory = "vae"

\* C16, amended: a file name that contains "vae" and ends in ".safetensors"
\* never resolves to checkpoints; it resolves to vae unless it also contains
\* a keyword of the unet rule, which precedes the vae rule in the mapping
\* table, and then it resolves to unet.
C16_VaeBeforeCheckpoints ==
    \A r \in Requests :
        IsVaeSafetensors(r)
            => LET d == target[r].directory
               IN /\ d # "checkpoints"
                  /\ d =
                     IF \E k \in 1..Len(MODEL_CLASSIFICATION_MAPPING[1].patterns) :
                           contains(LowerName(r), MODEL_CLASSIFICATION_MAPPING[1].patterns[k])
                     THEN "unet" ELSE "vae"

\* A name with "vae", with the keyword of a later rule and with the
\* .safetensors extension was resolved to vae.
C16_Witness ==
    \E r \in Requests :
        /\ IsVaeSafetensors(r) /\ target[r].directory = "vae"
        /\ contains(LowerName(r), <<"l", "o", "r", "a">>)

\* The rules that have a keyword matching the name
MatchingRules(name) ==
    {i \in 1..Len(MODEL_CLASSIFICATION_MAPPING) :
        \E k \in 1..Len(MODEL_CLASSIFICATION_MAPPING[i].patterns) :
            LET kw == MODEL_CLASSIFICATION_MAPPING[i].patterns[k]
            IN IF kw[1] = "." THEN endswith(name, kw) ELSE contains(name, kw)}

\* C17: the category of a resolved request is that of the first rule, in
\* table order, with a keyword contained in the lower-cased final path
\* segment (a keyword starting with a dot must end it), diffusion_models
\* when there is none; it is one of the created directories, and it is the
\* category of any URL with that lower-cased final segment.
C17_FirstMatchingRule ==
    \A r \in Requests :
        HasTarget(r)
            => LET name == LowerName(r)
                   d == target[r].directory
                   hits == MatchingRules(name)
                   first == CHOOSE i \in hits : \A j \in hits : i <= j
               IN /\ d = IF hits = {} THEN "diffusion_models"
                         ELSE MODEL_CLASSIFICATION_MAPPING[first].directory
                  /\ d \in directories
                  /\ d = determine_target_directory(<<"/">> \o name)

\* A name matched by the clip rule and by the later t5 rule was resolved
\* to clip.
C17_Witness ==
    \E r \in Requests :
        /\ target[r].directory = "clip"
        /\ MatchingRules(LowerName(r)) = {4, 5, 12}

\* C20: requests with different URLs resolve to different destination
\* paths, and no two workers are at work on the same destination path.
C20_DistinctUrlsDistinctPaths ==
    \A r, q \in Requests :
        (r # q /\ req[r].link # req[q].link /\ HasTarget(r) /\ HasTarget(q))
            => /\ target[r] # target[q]
               /\ ~(r \in Running /\ q \in Running /\ target[r] = target[q])

\* C21: at every moment of a pipeline run at most max_workers requests are
\* being processed; a request starts only when a worker is idle, and a
\* request in progress stays in progress until it has its outcome.
C21_PoolBound ==
    /\ [](Cardinality(Running) <= max_workers)
    /\ [][\A r \in Requests :
            /\ (pc[r] = "queued" /\ pc'[r] # "queued"
                    => Cardinality(Running) < max_workers)
            /\ (r \in Running
                    => \/ pc'[r] \in {"probe", "transfer", "backoff"}
                       \/ pc'[r] = "returned" /\ future'[r] \in Outcomes)]_vars
C21_Witness ==
    /\ phase = "running"
    /\ max_workers < Cardinality(Requests)
    /\ Cardinality(Running) = max_workers
    /\ \E r \in Requests : pc[r] = "queued"

\* C22: after an external cancellation no request that has not yet started
\* is started, and a transfer in flight finishes or leaves a prefix of the
\* remote content on disk.
C22_CancelStopsScheduling ==
    /\ [][\A r \in Requests :
            phase = "interrupted" /\ pc[r] = "queued" => pc'[r] = "queued"]_vars
    /\ [](phase = "interrupted" =>
            \A r \in Running :
                file[r].exists => \E k \in 0..req[r].size : file[r].data = RemotePrefix(k))

\* C23: when every network call and every sleep returns, a fetch ends in one
\* outcome after at most retry_count passes, and every request of a run
\* gets one outcome, which then stays as it is until the run ends.
C23_Terminates ==
    /\ \A r \in 1..LiveRequests :
          (phase = "running" /\ pc[r] = "queued")
              ~> (pc[r] = "done" /\ future[r] \in Outcomes)
    /\ [](\A r \in Requests :
            /\ gets[r] <= retry_count
            /\ attempt[r] < retry_count
            /\ (r \in Running => future[r] = "pending")
            /\ (pc[r] \in {"returned", "done"} <=> future[r] \in Outcomes))
    /\ [][\A r \in Requests :
            /\ (r \in Running /\ future'[r] # "pending"
                    => future'[r] \in {"Success", "Failed"})
            /\ (future[r] \in Outcomes /\ run' = run => future'[r] = future[r])]_vars
C23_Witness ==
    \E r \in Requests :
        /\ pc[r] = "done"
        /\ future[r] = "Failed"
        /\ gets[r] = retry_count
        /\ last_error[r] = "checksum"

\* C24: when the destination file exists at the start of an attempt and the
\* HEAD answer reports a positive size equal to the local size, the attempt
\* issues no GET for that file; with no digest supplied, or with a digest
\* that matches, the fetch returns Success with the file as it is.
C24_ProbeCompleteSkipsGet ==
    [][\A r \in Requests :
          (/\ pc[r] = "probe" /\ pc'[r] # "probe"
           /\ file[r].exists
           /\ total_size'[r] > 0
           /\ total_size'[r] = Size(file[r].data))
            => /\ gets'[r] = gets[r]
               /\ (~req[r].checksum.given \/ DigestEqual(file[r], req[r].checksum))
                    => /\ pc'[r] = "returned"
                       /\ future'[r] = "Success"
                       /\ file'[r] = file[r]]_vars
C24_Witness ==
    \E r \in Requests :
        /\ pc[r] = "returned" /\ future[r] = "Success"
        /\ total_size[r] > 0 /\ total_size[r] = Size(file[r].data)
        /\ req[r].checksum.given

\* C25 (as claimed): every digest mismatch a fetch detects, in the probe of
\* an existing file as well as after a transfer, is followed by an
\* increment of the attempt counter before the next transfer begins.
C25_MismatchConsumesAttempt ==
    [][\A r \in Requests :
          LET inProbe == /\ pc[r] = "probe" /\ pc'[r] # "probe"
                         /\ file[r].exists
                         /\ total_size'[r] > 0
                         /\ total_size'[r] = Size(file[r].data)
                         /\ req[r].checksum.given
                         /\ ~DigestEqual(file[r], req[r].checksum)
              afterTransfer == pc[r] = "transfer" /\ last_error'[r] = "checksum"
          IN ((inProbe \/ afterTransfer) /\ pc'[r] # "returned")
                => (pc'[r] = "probe" /\ attempt'[r] = attempt[r] + 1)]_vars

\* C26 (as claimed): when the parallel download of `update` has processed
\* its requests, which are the entries found installed, each of them has had
\* a transfer from its URL.
C26_UpdateRedownloads ==
    (command = "update" /\ phase = "running")
        => \A r \in Requests :
              (pc[r] = "done" /\ dispatched[r] > 0) => gets[r] >= 1

\* C27: the files a `prune` removes are files under the category
\* directories whose lower-cased name is the final path segment of no
\* configured URL; none is removed in dry-run mode, nor when the
\* configuration cannot be loaded; no other file is changed or created.
C27_PruneFrame ==
    [][(phase = "exited" /\ phase' = "exited"
         /\ command' \in {"prune", "prune --no-dry-run"})
        => /\ strays' \subseteq strays
           /\ \A f \in strays \ strays' :
                 \A r \in Requests :
                    req[r].url => str_lower(f.filename) # manager_filename(req[r].link)
           /\ \A r \in Requests :
                 \/ file'[r] = file[r]
                 \/ /\ file'[r] = NoFile
                    /\ req[r].url
                    /\ \A q \in Requests :
                          req[q].url => str_lower(target_filename(req[r].link))
                                           # manager_filename(req[q].link)
           /\ (command' = "prune" \/ models_json # "ok")
                 => (strays' = strays /\ file' = file /\ removed' = 0)
           /\ removed' = Cardinality(strays \ strays')
                           + Cardinality({r \in Requests : file'[r] # file[r]})]_vars
\* A prune without dry run has removed a stray and kept the stray whose
\* lower-cased name is that of a configured file, and the downloaded file.
C27_Witness ==
    /\ phase = "exited"
    /\ command = "prune --no-dry-run"
    /\ removed = 1
    /\ strays # {}
    /\ \A f \in strays : str_lower(f.filename) \in known_models
    /\ file[1].exists

\* C29 (as claimed): `verify` never reports as missing an entry with a
\* checksum that the download pipeline ended in Success or Skipped.
C29_VerifyFindsDownloads ==
    command = "verify"
        => \A r \in Requests :
              (req[r].checksum.given /\ future[r] \in {"Success", "Skipped"})
                  => report[r] # "missing"

\* C28 (as claimed): bytes written in append mode continue the remote
\* content at the offset of the local size: a destination that held a
\* prefix of the remote resource holds a longer prefix afterwards.
C28_AppendContinuesRemote ==
    [][\A r \in Requests :
          LET IsPrefix(c) == /\ Len(c) = 1
                             /\ c[1].src = "remote" /\ c[1].lo = 0
                             /\ c[1].hi <= req[r].size
          IN (/\ pc[r] = "transfer"
              /\ resumes(existing_size[r])
              /\ file[r].exists /\ IsPrefix(file[r].data)
              /\ file'[r].exists /\ file'[r] # file[r])
                => /\ IsPrefix(file'[r].data)
                   /\ Size(file'[r].data) > Size(file[r].data)]_vars

\* C30: the attempt that follows a digest mismatch after a transfer starts
\* from byte zero: the destination is gone, so existing_size is 0, no Range
\* header is sent and the file is opened "wb".
C30_RetryFromZero ==
    \A r \in Requests :
        (pc[r] \in {"probe", "transfer"} /\ last_error[r] = "checksum")
            => /\ attempt[r] >= 1
               /\ ~file[r].exists
               /\ pc[r] = "transfer"
                    => (existing_size[r] = 0 /\ ~resumes(existing_size[r]))
C30_Witness ==
    \E r \in Requests :
        /\ pc[r] = "transfer" /\ last_error[r] = "checksum"
        /\ attempt[r] = retry_count - 1
        /\ gets[r] = retry_count - 1

====
